---------------------------- MODULE Spec2Model ----------------------------
(***************************************************************************)
(* PANOC inner solver (PANOCSolver::operator()) as a state machine.        *)
(*                                                                         *)
(* real_t values are modelled exactly as dyadic numbers <<m, e>> = m * 2^e *)
(* (m odd, or <<0, 0>> for zero), together with one non-finite value NaN.  *)
(* Every input below is dyadic and every divisor is a power of two, so no  *)
(* rounding takes place and the arithmetic of the code is reproduced       *)
(* exactly.  Vectors have dimension n = 1 (m = 1 for the multipliers).     *)
(***************************************************************************)
EXTENDS Integers, Sequences, FiniteSets, TLC

----------------------------------------------------------------------------
(* real_t arithmetic                                                        *)

NaN == <<0, 1>>
Zero == <<0, 0>>
One == <<1, 0>>
Half == <<1, -1>>

\* 2^n, 0 <= n <= 30
Pow2(n) == 2^n

\* the number of trailing zero bits of m # 0
TrailingZeros(m) ==
    IF m % 2 = 1 THEN 0
    ELSE CHOOSE j \in 1..30 : m % Pow2(j) = 0 /\ (j = 30 \/ m % Pow2(j + 1) # 0)

\* m * 2^e in normal form
Norm(m, e) ==
    IF m = 0 THEN Zero
    ELSE LET j == TrailingZeros(m) IN <<m \div Pow2(j), e + j>>

IsNaN(a) == a = NaN
IsFinite(a) == a # NaN

MinI(i, j) == IF i < j THEN i ELSE j

Neg(a) == IF IsNaN(a) THEN NaN ELSE <<0 - a[1], a[2]>>

Add(a, b) ==
    IF IsNaN(a) \/ IsNaN(b) THEN NaN
    ELSE IF a[1] = 0 THEN b
    ELSE IF b[1] = 0 THEN a
    ELSE LET e == MinI(a[2], b[2])
         IN  Norm(a[1] * Pow2(a[2] - e) + b[1] * Pow2(b[2] - e), e)

Sub(a, b) == Add(a, Neg(b))

Mul(a, b) ==
    IF IsNaN(a) \/ IsNaN(b) THEN NaN
    ELSE IF a[1] = 0 \/ b[1] = 0 THEN Zero
    ELSE Norm(a[1] * b[1], a[2] + b[2])

\* a / b.  0/0 is NaN; the divisors of this model are powers of two (or
\* zero with a zero dividend), for which the quotient is exact.
Div(a, b) ==
    IF IsNaN(a) \/ IsNaN(b) THEN NaN
    ELSE IF b[1] = 0 THEN NaN
    ELSE IF a[1] = 0 THEN Zero
    ELSE IF b[1] = 1 THEN <<a[1], a[2] - b[2]>>
    ELSE IF b[1] = -1 THEN <<0 - a[1], a[2] - b[2]>>
    ELSE NaN

Sign(a) == IF a[1] > 0 THEN 1 ELSE IF a[1] < 0 THEN -1 ELSE 0

\* the number of bits of m > 0
BitLen(m) == CHOOSE j \in 1..30 : m < Pow2(j) /\ Pow2(j - 1) <= m

\* position of the leading bit of |a|, a # 0
Msb(a) == a[2] + BitLen(IF a[1] < 0 THEN 0 - a[1] ELSE a[1])

\* -1, 0, 1 as a < b, a = b, a > b (a, b finite); operands of different
\* magnitude are told apart by their leading bits
CmpMagnitude(sa, ma, mb, a, b) ==
    IF ma # mb THEN (IF ma < mb THEN 0 - sa ELSE sa)
    ELSE Sign(Add(a, Neg(b)))
CmpSigns(sa, sb, a, b) ==
    IF sa # sb THEN (IF sa < sb THEN -1 ELSE 1)
    ELSE IF sa = 0 THEN 0
    ELSE CmpMagnitude(sa, Msb(a), Msb(b), a, b)
Cmp(a, b) == CmpSigns(Sign(a), Sign(b), a, b)

\* Comparisons are false as soon as one operand is NaN (IEEE 754).
Lt(a, b) == IsFinite(a) /\ IsFinite(b) /\ Cmp(a, b) < 0
Le(a, b) == IsFinite(a) /\ IsFinite(b) /\ Cmp(a, b) <= 0
Gt(a, b) == Lt(b, a)
Ge(a, b) == Le(b, a)

Abs(a) == IF IsNaN(a) THEN NaN ELSE IF a[1] < 0 THEN Neg(a) ELSE a
MaxR(a, b) == IF Lt(a, b) THEN b ELSE a
MinR(a, b) == IF Lt(b, a) THEN b ELSE a

\* std::abs(a / b) > t : with b = 0 the quotient is +-inf (a # 0, greater
\* than every finite t) or NaN (a = 0, every comparison false).
AbsRatioGt(a, b, t) ==
    IF IsNaN(a) \/ IsNaN(b) \/ IsNaN(t) THEN FALSE
    ELSE IF b[1] = 0 THEN a[1] # 0
    ELSE Gt(Abs(a), Mul(t, Abs(b)))


Two == <<1, 1>>

----------------------------------------------------------------------------
(* The problem (ProblemAPI): psi is piecewise quadratic in one variable,    *)
(* with curvature a1 left of the kink b and a2 right of it, not finite     *)
(* from "bad" on (bad = NaN: finite everywhere), and C = [lo, hi].          *)

Problem(a1, a2, b, bad, lo, hi) ==
    [a1 |-> a1, a2 |-> a2, b |-> b, bad |-> bad, lo |-> lo, hi |-> hi]

Quad == Problem(One, One, Zero, NaN, <<-1, 2>>, <<1, 2>>)
Kink == Problem(One, <<1, 2>>, <<-3, -2>>, NaN, <<-1, 2>>, <<1, 2>>)
Kink2 == Problem(One, <<1, 2>>, <<-1, -2>>, NaN, <<-1, 2>>, <<1, 2>>)
Box  == Problem(One, One, Zero, NaN, One, Two)
Flat == Problem(Zero, Zero, Zero, NaN, One, Two)
Bad  == Problem(One, One, Zero, Half, <<-1, 2>>, <<1, 2>>)

InBad(pr, x) == IsFinite(pr.bad) /\ Ge(x, pr.bad)

\* psi(x)
Psi(pr, x) ==
    IF IsNaN(x) \/ InBad(pr, x) THEN NaN
    ELSE IF Le(x, pr.b) THEN Mul(Half, Mul(pr.a1, Mul(x, x)))
    ELSE LET d == Sub(x, pr.b)
         IN  Add(Add(Mul(Half, Mul(pr.a1, Mul(pr.b, pr.b))),
                     Mul(Mul(pr.a1, pr.b), d)),
                 Mul(Half, Mul(pr.a2, Mul(d, d))))

\* grad psi(x)
GradPsi(pr, x) ==
    IF IsNaN(x) \/ InBad(pr, x) THEN NaN
    ELSE IF Le(x, pr.b) THEN Mul(pr.a1, x)
    ELSE Add(Mul(pr.a1, pr.b), Mul(pr.a2, Sub(x, pr.b)))

\* y-hat(x) = Sigma (g(x) + y / Sigma - z-hat) with g(x) = x, Sigma = 1,
\* D = {0}: y-hat(x) = x + y
Yhat(pr, y, x) == IF InBad(pr, x) THEN NaN ELSE Add(x, y)

\* grad psi(x) = grad f(x) + grad g(x)' y-hat, from a given y-hat
GradPsiFromYhat(pr, y, x, yh) ==
    Add(Sub(GradPsi(pr, x), Yhat(pr, y, x)), yh)

\* projection onto C
Project(pr, v) == IF IsNaN(v) THEN NaN ELSE MinR(MaxR(v, pr.lo), pr.hi)

\* x-hat = proj_C(x - gamma grad psi(x)), p = x-hat - x
CalcXhat(pr, g, x, grad) == Project(pr, Sub(x, Mul(g, grad)))
CalcP(xh, x) == Sub(xh, x)

\* err_z = g(x-hat) - z-hat
CalcErrZ(pr, xh) == xh

\* stop criterion: || p / gamma + (grad psi(x) - grad psi(x-hat)) ||_inf
CalcErrorStopCrit(p, g, gradhat, grad) ==
    Abs(Add(Mul(Div(One, g), p), Sub(grad, gradhat)))


----------------------------------------------------------------------------
(* Parameters and bounds                                                    *)

EpsM == <<1, -52>>              \* std::numeric_limits<real_t>::epsilon()
LipschitzEps == <<1, -20>>      \* params.Lipschitz.eps
LipschitzDelta == <<1, -40>>    \* params.Lipschitz.delta
LGammaFactor == Half            \* params.Lipschitz.Lgamma_factor
QubThreshold == Zero            \* params.quadratic_upperbound_threshold

Y0 == One                       \* the caller's y at entry
ErrZ0 == <<7, 0>>               \* the caller's err_z at entry

MaxIterBound == 3               \* params.max_iter ranges over 0..MaxIterBound
SearchIters == 2                \* params.max_iter where the line search varies
MaxQub == 3                     \* most doublings of L in one upper-bound loop

\* (problem, starting point) pairs
Starts == { <<Quad, Zero>>, <<Quad, <<-1, 0>>>>, <<Kink, <<-1, 0>>>>,
            <<Box, Zero>>, <<Box, One>>, <<Flat, Zero>>,
            <<Bad, <<-1, 0>>>>, <<Bad, One>> }
SearchStarts == { <<Kink, <<-1, 0>>>>, <<Kink2, <<-1, 0>>>>,
                  <<Bad, <<-1, 0>>>> }
TauMins == { <<1, -2>>, <<3, -3>>, Two }
Tolerances == { <<1, -3>>, <<-1, 0>> }
LbfgsMems == { 1, 2 }

Config(st, mi, tm, tol, mem, ul, alt, an, ow) ==
    [prob |-> st[1], x0 |-> st[2], max_iter |-> mi, tau_min |-> tm,
     tol |-> tol, lbfgs_mem |-> mem,
     update_lipschitz_in_linesearch |-> ul,
     alternative_linesearch_cond |-> alt,
     anderson_acceleration |-> an,
     always_overwrite_results |-> ow]

\* every start, iteration limit, tolerance and overwrite flag
ExitConfigs ==
    { Config(st, mi, <<1, -2>>, tol, mem, FALSE, FALSE, FALSE, ow) :
        st \in Starts, mi \in 0..MaxIterBound, tol \in Tolerances,
        mem \in LbfgsMems, ow \in BOOLEAN }

\* every line search floor and every combination of the options
SearchConfigs ==
    { Config(st, SearchIters, tm, tol, mem, ul, alt, an, FALSE) :
        st \in SearchStarts, tm \in TauMins, tol \in Tolerances,
        mem \in LbfgsMems, ul \in BOOLEAN, alt \in BOOLEAN,
        an \in BOOLEAN }

Configs == ExitConfigs \cup SearchConfigs

\* directions the provider may return for the residual p
QChoices(p) == { p, Half, Two, NaN }
\* extrapolated points the Anderson least-squares step may return
AAChoices(gaa) == { gaa, Zero }

Statuses == { "Unknown", "Converged", "MaxTime", "MaxIter", "NotFinite",
              "NoProgress", "Interrupted" }

----------------------------------------------------------------------------
VARIABLES
    cfg,          \* params and arguments of this solve (constant)
    pc,           \* position in operator()
    x, y, err_z,  \* the caller's vectors
    k,            \* loop counter
    cur,          \* the buffers and scalars with subscript k
    nxt,          \* the buffers and scalars with subscript k+1
    aa,           \* Anderson acceleration vectors
    tau, sigma_norm, eps_k, no_progress,
    s,            \* Stats
    stop_signal,  \* stop_signal.stop_requested()
    timed_out,    \* steady_clock::now() - start_time > params.max_time
    dir,          \* what the direction provider has been told
    ls,           \* the line search of this iteration: passes, branches
    flags,        \* the exit flags of the latest stop test
    unchanged     \* how many of the latest iterations left x as it was

vars == <<cfg, pc, x, y, err_z, k, cur, nxt, aa, tau, sigma_norm, eps_k,
          no_progress, s, stop_signal, timed_out, dir, ls, flags, unchanged>>

env == <<stop_signal, timed_out>>

Init ==
    /\ cfg \in Configs
    /\ pc = "estimate"
    /\ x = cfg.x0 /\ y = Y0 /\ err_z = ErrZ0
    /\ k = 0
    /\ cur = [x |-> cfg.x0, xhat |-> NaN, yhat |-> NaN, p |-> NaN, q |-> NaN,
              grad |-> NaN, gradhat |-> NaN, psi |-> NaN, psixhat |-> NaN,
              phi |-> NaN, L |-> NaN, sigma |-> NaN, gamma |-> NaN,
              gTp |-> NaN, nsq |-> NaN]
    /\ nxt = [x |-> NaN, xhat |-> NaN, yhat |-> NaN, p |-> NaN,
              grad |-> NaN, psi |-> NaN, psixhat |-> NaN, phi |-> NaN,
              L |-> NaN, sigma |-> NaN, gamma |-> NaN, gTp |-> NaN,
              nsq |-> NaN]
    /\ aa = [raa_prev |-> NaN, raa |-> NaN, yaa |-> NaN, xaa |-> NaN,
             gaa |-> NaN, yhat_aa |-> NaN, accepted |-> FALSE]
    /\ tau = NaN /\ sigma_norm = NaN /\ eps_k = NaN
    /\ no_progress = 0
    /\ unchanged = 0
    /\ s = [iterations |-> 0, status |-> "Unknown", eps |-> NaN,
            linesearch_failures |-> 0, lbfgs_failures |-> 0,
            lbfgs_rejected |-> 0]
    /\ stop_signal = FALSE
    /\ timed_out = FALSE
    /\ dir = [initialized |-> FALSE, gamma |-> NaN, call |-> "none",
              g_new |-> NaN, g_old |-> NaN, known |-> NaN,
              applies |-> 0, updates |-> 0, resets |-> 0]
    /\ ls = [passes |-> 0, prox |-> 0, last_prox |-> FALSE, tau0 |-> NaN]
    /\ flags = [conv |-> FALSE, out_of_iter |-> FALSE, out_of_time |-> FALSE,
                not_finite |-> FALSE, interrupted |-> FALSE,
                max_no_progress |-> FALSE, tested |-> FALSE]

----------------------------------------------------------------------------
(* Estimate Lipschitz constant and first projected gradient step            *)

\* (variant: no clamping)
ClampL_None(L) == L

\* L < eps ? eps : L
ClampL(L) == IF Lt(L, EpsM) THEN EpsM ELSE L

\* gamma = Lgamma_factor / L
InitialGamma(L) == Div(LGammaFactor, L)
\* sigma = gamma (1 - gamma L) / 2
InitialSigma(g, L) == Div(Mul(g, Sub(One, Mul(g, L))), Two)

\* phi = psi + 1 / (2 gamma) ||p||^2 + grad_psi' p
FBE(psi, g, nsq, gTp) == Add(Add(psi, Mul(Div(One, Mul(Two, g)), nsq)), gTp)

\* h = (x * Lipschitz.eps).cwiseAbs().cwiseMax(Lipschitz.delta)
LipschitzStep(xx) == MaxR(Abs(Mul(xx, LipschitzEps)), LipschitzDelta)

\* L = || grad psi(x + h) - grad psi(x) || / || h ||
FiniteDifference(pr, xx, h) ==
    Div(Abs(Sub(GradPsi(pr, Add(xx, h)), GradPsi(pr, xx))), Abs(h))
EstimateL(pr, xx) == FiniteDifference(pr, xx, LipschitzStep(xx))

\* p, grad_psi' p, ||p||^2, psi(x-hat), y-hat(x-hat) of the point x-hat
WithXhat(pr, yy, r, xx, grad, xh, p) ==
    [r EXCEPT !.xhat = xh, !.p = p, !.gTp = Mul(grad, p), !.nsq = Mul(p, p),
              !.psixhat = Psi(pr, xh), !.yhat = Yhat(pr, yy, xh)]

\* calc_x_hat and what follows it, with the step size r.gamma
ProxStep(pr, yy, r, xx, grad, xh) ==
    WithXhat(pr, yy, r, xx, grad, xh, CalcP(xh, xx))

\* phi of the point held in r
WithPhi(r) == [r EXCEPT !.phi = FBE(r.psi, r.gamma, r.nsq, r.gTp)]

\* L, gamma, sigma and the first projected gradient step
FirstStep(pr, yy, c, psi, g0, L, g) ==
    WithPhi(ProxStep(pr, yy,
                     [c EXCEPT !.psi = psi, !.grad = g0, !.L = L,
                               !.gamma = g, !.sigma = InitialSigma(g, L)],
                     c.x, g0, CalcXhat(pr, g, c.x, g0)))

EstimateLipschitz ==
    /\ pc = "estimate"
    /\ \E xk1 \in {Add(cur.x, LipschitzStep(cur.x))},
          psi \in {Psi(cfg.prob, cur.x)},
          g0  \in {GradPsi(cfg.prob, cur.x)},
          Lfd \in {EstimateL(cfg.prob, cur.x)} :
         /\ nxt' = [nxt EXCEPT !.x = xk1, !.grad = GradPsi(cfg.prob, xk1)]
         /\ IF ~Lt(Lfd, EpsM) /\ ~IsFinite(Lfd)
            THEN /\ s' = [s EXCEPT !.status = "NotFinite"]
                 /\ pc' = "done"
                 /\ cur' = [cur EXCEPT !.psi = psi, !.grad = g0, !.L = Lfd]
            ELSE /\ s' = s
                 /\ pc' = "qub"
                 /\ \E L \in {ClampL(Lfd)} :
                      cur' = FirstStep(cfg.prob, y, cur, psi, g0, L,
                                       InitialGamma(L))
    /\ UNCHANGED <<cfg, x, y, err_z, k, aa, tau, sigma_norm, eps_k,
                   no_progress, env, dir, ls, flags, unchanged>>


----------------------------------------------------------------------------
(* Quadratic upper bound                                                    *)

\* psi(x-hat) - psi > grad_psi' p + 0.5 L ||p||^2  &&
\* |grad_psi' p / psi| > quadratic_upperbound_threshold
QubCond(r, psi) ==
    /\ Gt(Sub(r.psixhat, psi), Add(r.gTp, Mul(Mul(Half, r.L), r.nsq)))
    /\ AbsRatioGt(r.gTp, psi, QubThreshold)

\* (variant: sigma is not halved)
QubStep_SigmaKept(pr, yy, r, xx, grad) ==
    ProxStep(pr, yy,
             [r EXCEPT !.L = Mul(r.L, Two), !.gamma = Div(r.gamma, Two)],
             xx, grad, CalcXhat(pr, Div(r.gamma, Two), xx, grad))

\* one turn of the loop: L *= 2, sigma /= 2, gamma /= 2, and x-hat, p,
\* grad_psi' p, ||p||^2, psi(x-hat), y-hat(x-hat) again with the new step
QubStep(pr, yy, r, xx, grad) ==
    ProxStep(pr, yy,
             [r EXCEPT !.L = Mul(r.L, Two), !.sigma = Div(r.sigma, Two),
                       !.gamma = Div(r.gamma, Two)],
             xx, grad, CalcXhat(pr, Div(r.gamma, Two), xx, grad))

\* the while loop, at most n turns
RECURSIVE QubLoop(_, _, _, _, _, _, _)
QubLoop(pr, yy, r, xx, grad, psi, n) ==
    IF n = 0 \/ ~QubCond(r, psi) THEN r
    ELSE QubLoop(pr, yy, QubStep(pr, yy, r, xx, grad), xx, grad, psi, n - 1)

\* Direction::changed_gamma(gamma, old_gamma)
ChangedGamma(d, g, old) ==
    [d EXCEPT !.call = "changed", !.g_new = g, !.g_old = old,
              !.known = d.gamma, !.gamma = g]

\* anderson_changed_gamma: r_aa,k-1 *= gamma / old_gamma  (qr.scale_R alike)
AndersonChangedGamma(a, g, old) ==
    IF cfg.anderson_acceleration
    THEN [a EXCEPT !.raa_prev = Mul(a.raa_prev, Div(g, old))]
    ELSE a

\* Direction::initialize(x, x-hat, p, grad_psi)
Initialize(d, g) ==
    [d EXCEPT !.initialized = TRUE, !.call = "initialize", !.g_new = g,
              !.gamma = g]

QuadraticUpperBound ==
    /\ pc = "qub"
    /\ \E r \in {IF k = 0 \/ ~cfg.update_lipschitz_in_linesearch
                  THEN QubLoop(cfg.prob, y, cur, cur.x, cur.grad, cur.psi,
                               MaxQub)
                  ELSE cur} :
         \E gh \in {GradPsiFromYhat(cfg.prob, y, r.xhat, r.yhat)} :
           /\ (k = 0 \/ ~cfg.update_lipschitz_in_linesearch)
                => ~QubCond(r, cur.psi)
           /\ cur' = [r EXCEPT !.gradhat = gh]
           /\ dir' = IF k > 0 /\ r.gamma # cur.gamma
                     THEN ChangedGamma(dir, r.gamma, cur.gamma)
                     ELSE IF k = 0 THEN Initialize(dir, r.gamma)
                     ELSE dir
           /\ aa' = IF k > 0 /\ r.gamma # cur.gamma
                    THEN AndersonChangedGamma(aa, r.gamma, cur.gamma)
                    ELSE aa
           /\ eps_k' = CalcErrorStopCrit(r.p, r.gamma, gh, r.grad)
    /\ pc' = "stop"
    /\ UNCHANGED <<cfg, x, y, err_z, k, nxt, tau, sigma_norm, no_progress, s,
                   env, ls, flags, unchanged>>

----------------------------------------------------------------------------
(* Stop test                                                                *)

\* (variant: the flags tested in the order of the exit expression)
ExitStatus_ExitOrder(conv, out_of_time, out_of_iter, not_finite, max_no_progress) ==
    IF conv THEN "Converged"
    ELSE IF out_of_iter THEN "MaxIter"
    ELSE IF out_of_time THEN "MaxTime"
    ELSE IF not_finite THEN "NotFinite"
    ELSE IF max_no_progress THEN "NoProgress"
    ELSE "Interrupted"

\* (variant: the time limit tested before convergence)
ExitStatus_TimeFirst(conv, out_of_time, out_of_iter, not_finite, max_no_progress) ==
    IF out_of_time THEN "MaxTime"
    ELSE IF conv THEN "Converged"
    ELSE IF out_of_iter THEN "MaxIter"
    ELSE IF not_finite THEN "NotFinite"
    ELSE IF max_no_progress THEN "NoProgress"
    ELSE "Interrupted"

ExitStatus(conv, out_of_time, out_of_iter, not_finite, max_no_progress) ==
    IF conv THEN "Converged"
    ELSE IF out_of_time THEN "MaxTime"
    ELSE IF out_of_iter THEN "MaxIter"
    ELSE IF not_finite THEN "NotFinite"
    ELSE IF max_no_progress THEN "NoProgress"
    ELSE "Interrupted"

\* (variant: results written on every exit)
WriteResults_Always(conv, interrupted, always_overwrite_results) == TRUE

\* (variant: an interrupted solve does not write its results)
WriteResults_NoInterrupt(conv, interrupted, always_overwrite_results) ==
    conv \/ always_overwrite_results

\* conv || interrupted || always_overwrite_results
WriteResults(conv, interrupted, always_overwrite_results) ==
    conv \/ interrupted \/ always_overwrite_results

\* (variant: the iteration limit is never met)
OutOfIter_Never(kk, max_iter) == FALSE

\* k == params.max_iter
OutOfIter(kk, max_iter) == kk = max_iter

StopTest ==
    /\ pc = "stop"
    /\ LET out_of_time     == timed_out
           out_of_iter     == OutOfIter(k, cfg.max_iter)
           interrupted     == stop_signal
           not_finite      == ~IsFinite(eps_k)
           conv            == Le(eps_k, cfg.tol)
           max_no_progress == no_progress > cfg.lbfgs_mem
           exit == conv \/ out_of_iter \/ out_of_time \/ not_finite
                     \/ interrupted \/ max_no_progress
       IN  /\ flags' = [conv |-> conv, out_of_iter |-> out_of_iter,
                        out_of_time |-> out_of_time,
                        not_finite |-> not_finite,
                        interrupted |-> interrupted,
                        max_no_progress |-> max_no_progress,
                        tested |-> TRUE]
           /\ IF exit
              THEN /\ IF WriteResults(conv, interrupted,
                                      cfg.always_overwrite_results)
                      THEN /\ err_z' = CalcErrZ(cfg.prob, cur.xhat)
                           /\ x' = cur.xhat
                           /\ y' = cur.yhat
                      ELSE UNCHANGED <<x, y, err_z>>
                   /\ s' = [s EXCEPT !.iterations = k, !.eps = eps_k,
                               !.status = ExitStatus(conv, out_of_time,
                                   out_of_iter, not_finite, max_no_progress)]
                   /\ pc' = "done"
              ELSE /\ UNCHANGED <<x, y, err_z, s>>
                   /\ pc' = "dir"
    /\ UNCHANGED <<cfg, k, cur, nxt, aa, tau, sigma_norm, eps_k, no_progress,
                   env, dir, ls, unchanged>>

----------------------------------------------------------------------------
(* The environment: another thread requests a stop, the clock passes        *)
(* start_time + max_time                                                    *)

Stop ==
    /\ ~stop_signal
    /\ stop_signal' = TRUE
    /\ UNCHANGED <<cfg, pc, x, y, err_z, k, cur, nxt, aa, tau, sigma_norm,
                   eps_k, no_progress, s, timed_out, dir, ls, flags, unchanged>>

TimePasses ==
    /\ ~timed_out
    /\ timed_out' = TRUE
    /\ UNCHANGED <<cfg, pc, x, y, err_z, k, cur, nxt, aa, tau, sigma_norm,
                   eps_k, no_progress, s, stop_signal, dir, ls, flags, unchanged>>


----------------------------------------------------------------------------
(* Quasi-Newton step, Anderson acceleration, line search initialization     *)

\* Direction::apply(x, x-hat, p, q)
Apply(d, g) ==
    [d EXCEPT !.call = "apply", !.g_new = g, !.known = d.gamma,
              !.applies = d.applies + 1]

\* direction_provider.reset()
Reset(d) == [d EXCEPT !.resets = d.resets + 1]

\* Anderson acceleration at k = 0
AndersonInit(a, c) ==
    LET r == Mul(Neg(c.gamma), c.grad)
    IN  [a EXCEPT !.raa_prev = r, !.yaa = Add(c.x, r), !.accepted = FALSE]

\* Anderson acceleration at k > 0, yn the point minimize_update_anderson
\* leaves in y_aa
AndersonStep(pr, yy, a, c, gaa, yn) ==
    LET xaa == Project(pr, yn)
    IN  [a EXCEPT !.gaa = gaa, !.raa = Sub(gaa, a.yaa), !.yaa = yn,
                  !.xaa = xaa, !.yhat_aa = Yhat(pr, yy, xaa),
                  !.accepted = Lt(Psi(pr, xaa), c.psixhat)]

\* an accepted accelerated point replaces x-hat
AndersonAccept(pr, yy, a, c) ==
    [c EXCEPT !.xhat = a.xaa, !.p = Sub(a.xaa, c.x),
              !.psixhat = Psi(pr, a.xaa),
              !.gradhat = GradPsiFromYhat(pr, yy, a.xaa, a.yhat_aa)]

\* sigma ||p||^2 / gamma^2
SigmaNorm(c) == Div(Mul(c.sigma, c.nsq), Mul(c.gamma, c.gamma))

Direction ==
    /\ pc = "dir"
    /\ \E q \in (IF k > 0 THEN QChoices(cur.p) ELSE {cur.q}),
          yn \in (IF k > 0 /\ cfg.anderson_acceleration
                  THEN AAChoices(Sub(cur.x, Mul(cur.gamma, cur.grad)))
                  ELSE {aa.yaa}) :
         \E a1 \in {IF ~cfg.anderson_acceleration
                    THEN [aa EXCEPT !.accepted = FALSE]
                    ELSE IF k = 0 THEN AndersonInit(aa, cur)
                    ELSE AndersonStep(cfg.prob, y, aa, cur,
                             Sub(cur.x, Mul(cur.gamma, cur.grad)), yn)} :
           \E c2 \in {IF a1.accepted
                      THEN AndersonAccept(cfg.prob, y, a1,
                                          [cur EXCEPT !.q = q])
                      ELSE [cur EXCEPT !.q = q]} :
             /\ cur' = c2
             /\ aa' = IF a1.accepted THEN [a1 EXCEPT !.xaa = cur.xhat]
                      ELSE a1
             /\ sigma_norm' = SigmaNorm(c2)
             /\ tau' = IF k = 0 \/ ~IsFinite(q) THEN Zero ELSE One
             /\ s' = IF k > 0 /\ ~IsFinite(q)
                     THEN [s EXCEPT !.lbfgs_failures = s.lbfgs_failures + 1]
                     ELSE s
             /\ dir' = IF k = 0 THEN dir
                       ELSE IF ~IsFinite(q)
                       THEN Reset(Apply(dir, cur.gamma))
                       ELSE Apply(dir, cur.gamma)
             /\ ls' = [passes |-> 0, prox |-> 0, last_prox |-> FALSE,
                       tau0 |-> IF k = 0 \/ ~IsFinite(q) THEN Zero
                                ELSE One]
    /\ pc' = "ls"
    /\ UNCHANGED <<cfg, x, y, err_z, k, nxt, eps_k, no_progress, env, flags,
                   unchanged>>

----------------------------------------------------------------------------
(* One pass of the line search loop                                         *)

\* tau / 2 < tau_min : the line search failed
LineSearchFailed(t, tau_min) == Lt(Div(t, Two), tau_min)

\* x_k+1 = x + (1 - tau) p + tau q
QuasiNewtonStep(c, t) ==
    Add(Add(c.x, Mul(Sub(One, t), c.p)), Mul(t, c.q))

\* ls_cond = phi_k+1 - (phi_k - sigma ||p||^2 / gamma^2), and with the
\* alternative condition  - (0.5 / gamma_k+1 - 0.5 / gamma_k) ||p_k+1||^2_k
LsCond(c, n, sn, nsq_k, alt) ==
    LET c0 == Sub(n.phi, Sub(c.phi, sn))
    IN  IF alt
        THEN Sub(c0, Mul(Sub(Div(Half, n.gamma), Div(Half, c.gamma)), nsq_k))
        ELSE c0

\* (variant: the loop goes on whatever tau)
LsContinue_NoFloor(cond, t, tau_min) == Gt(cond, Zero)

\* while (ls_cond > 0 && tau >= tau_min)
LsContinue(cond, t, tau_min) == Gt(cond, Zero) /\ Ge(t, tau_min)

\* (variant: every pass starts from twice the step size of iteration k)
TrialReset_Larger(n, c) ==
    [n EXCEPT !.L = c.L, !.sigma = c.sigma, !.gamma = Mul(c.gamma, Two)]

\* L_k+1 = L_k, sigma_k+1 = sigma_k, gamma_k+1 = gamma_k
TrialReset(n, c) ==
    [n EXCEPT !.L = c.L, !.sigma = c.sigma, !.gamma = c.gamma]

LineSearchPass ==
    /\ pc = "ls"
    /\ \E fail \in {LineSearchFailed(tau, cfg.tau_min)} :
       \* safe prox step: swaps, or the quasi-Newton candidate
       \E xn \in {IF fail THEN cur.xhat ELSE QuasiNewtonStep(cur, tau)} :
       \E psin \in {IF fail THEN cur.psixhat ELSE Psi(cfg.prob, xn)},
          gn   \in {IF fail THEN cur.gradhat ELSE GradPsi(cfg.prob, xn)},
          c1   \in {IF fail
                    THEN [cur EXCEPT !.xhat = nxt.x, !.gradhat = nxt.grad]
                    ELSE cur} :
       \E n0 \in {ProxStep(cfg.prob, y,
                           [TrialReset(nxt, cur) EXCEPT
                                !.x = xn, !.psi = psin, !.grad = gn],
                           xn, gn,
                           CalcXhat(cfg.prob, TrialReset(nxt, cur).gamma,
                                    xn, gn))} :
       \E n1 \in {IF cfg.update_lipschitz_in_linesearch
                  THEN QubLoop(cfg.prob, y, n0, xn, gn, psin, MaxQub)
                  ELSE n0} :
       \E n2 \in {WithPhi(n1)}, t1 \in {Div(tau, Two)} :
           /\ cfg.update_lipschitz_in_linesearch => ~QubCond(n1, psin)
           /\ cur' = c1
           /\ nxt' = n2
           /\ tau' = t1
           /\ dir' = IF n1.gamma # n0.gamma
                     THEN ChangedGamma(dir, n1.gamma, n0.gamma)
                     ELSE dir
           /\ aa' = IF n1.gamma # n0.gamma
                    THEN AndersonChangedGamma(aa, n1.gamma, n0.gamma)
                    ELSE aa
           /\ ls' = [ls EXCEPT !.passes = ls.passes + 1,
                               !.prox = ls.prox + (IF fail THEN 1 ELSE 0),
                               !.last_prox = fail]
           /\ pc' = IF LsContinue(LsCond(c1, n2, sigma_norm, n0.nsq,
                                         cfg.alternative_linesearch_cond),
                                  t1, cfg.tau_min)
                    THEN "ls" ELSE "post"
    /\ UNCHANGED <<cfg, x, y, err_z, k, sigma_norm, eps_k, no_progress, s,
                   env, flags, unchanged>>

----------------------------------------------------------------------------
(* After the line search: counters, direction update, advance               *)

\* x_k == x_k+1 (Eigen: all coefficients equal; NaN equals nothing)
VecEq(a, b) == IsFinite(a) /\ IsFinite(b) /\ a = b

\* (variant: a changed x leaves the counter as it is)
NoProgress_NoReset(np, kk, mem, xk, xk1) ==
    IF np > 0 \/ kk % mem = 0
    THEN (IF VecEq(xk, xk1) THEN np + 1 ELSE np)
    ELSE np

\* if (no_progress > 0 || k % lbfgs_mem == 0) no_progress = ...
NoProgress(np, kk, mem, xk, xk1) ==
    IF np > 0 \/ kk % mem = 0
    THEN (IF VecEq(xk, xk1) THEN np + 1 ELSE 0)
    ELSE np

\* (variant: counted at k = 0 as well)
CountLinesearchFailure_AtZero(t, tau_min, kk) == Lt(t, tau_min)

\* tau < tau_min && k != 0
CountLinesearchFailure(t, tau_min, kk) == Lt(t, tau_min) /\ kk # 0

\* Direction::update(x, x_k+1, p, p_k+1, grad_psi_k+1, C, gamma_k+1)
Update(d, g) ==
    [d EXCEPT !.call = "update", !.g_new = g, !.known = d.gamma,
              !.updates = d.updates + 1]

\* the Anderson vectors after the step
AndersonAdvance(a, kk) ==
    IF kk > 0 /\ cfg.anderson_acceleration
    THEN LET a1 == IF a.accepted THEN a
                   ELSE [a EXCEPT !.yaa = a.gaa, !.gaa = a.yaa]
         IN  [a1 EXCEPT !.raa = a.raa_prev, !.raa_prev = a.raa]
    ELSE a

\* (variant: grad_psi' p and ||p||^2 are not carried)
AdvanceCur_NoCarry(c, n) ==
    [c EXCEPT !.L = n.L, !.sigma = n.sigma, !.gamma = n.gamma,
              !.psi = n.psi, !.psixhat = n.psixhat, !.phi = n.phi,
              !.x = n.x, !.xhat = n.xhat, !.yhat = n.yhat, !.p = n.p,
              !.grad = n.grad]

\* L, sigma, gamma, psi, psi(x-hat), phi copied; x, x-hat, y-hat, p,
\* grad_psi swapped; grad_psi' p and ||p||^2 carried
AdvanceCur(c, n) ==
    [c EXCEPT !.L = n.L, !.sigma = n.sigma, !.gamma = n.gamma,
              !.psi = n.psi, !.psixhat = n.psixhat, !.phi = n.phi,
              !.x = n.x, !.xhat = n.xhat, !.yhat = n.yhat, !.p = n.p,
              !.grad = n.grad, !.gTp = n.gTp, !.nsq = n.nsq]

AdvanceNxt(c, n) ==
    [n EXCEPT !.x = c.x, !.xhat = c.xhat, !.yhat = c.yhat, !.p = c.p,
              !.grad = c.grad]

Advance ==
    /\ pc = "post"
    /\ \E accepted \in BOOLEAN :
         s' = [s EXCEPT
                 !.linesearch_failures =
                     IF CountLinesearchFailure(tau, cfg.tau_min, k)
                     THEN s.linesearch_failures + 1
                     ELSE s.linesearch_failures,
                 !.lbfgs_rejected =
                     IF accepted THEN s.lbfgs_rejected
                     ELSE s.lbfgs_rejected + 1]
    /\ dir' = Update(dir, nxt.gamma)
    /\ no_progress' = NoProgress(no_progress, k, cfg.lbfgs_mem, cur.x, nxt.x)
    /\ unchanged' = IF VecEq(cur.x, nxt.x) THEN unchanged + 1 ELSE 0
    /\ aa' = AndersonAdvance(aa, k)
    /\ cur' = AdvanceCur(cur, nxt)
    /\ nxt' = AdvanceNxt(cur, nxt)
    /\ k' = k + 1
    /\ pc' = IF k + 1 <= cfg.max_iter THEN "qub" ELSE "error"
    /\ UNCHANGED <<cfg, x, y, err_z, tau, sigma_norm, eps_k, env, ls, flags>>

----------------------------------------------------------------------------
Next ==
    \/ EstimateLipschitz
    \/ QuadraticUpperBound
    \/ StopTest
    \/ Direction
    \/ LineSearchPass
    \/ Advance
    \/ Stop
    \/ TimePasses

Spec == Init /\ [][Next]_vars


----------------------------------------------------------------------------
(* PGA (PGA::operator()): projected gradient steps with the adaptive step   *)
(* size, no direction and no line search.  It runs on the same variables:   *)
(* cur holds x_k, x-hat_k, p_k, y-hat_k, grad_psi_k, grad_psi(x-hat_k).     *)

PGAConfig(st, mi, tol) ==
    [solver |-> "PGA", prob |-> st[1], x0 |-> st[2], max_iter |-> mi,
     tol |-> tol]

PGAConfigs ==
    { PGAConfig(st, mi, tol) :
        st \in Starts, mi \in 0..MaxIterBound, tol \in Tolerances }

InitPGA ==
    /\ cfg \in PGAConfigs
    /\ pc = "pga_estimate"
    /\ x = cfg.x0 /\ y = Y0 /\ err_z = ErrZ0
    /\ k = 0
    /\ cur = [x |-> cfg.x0, xhat |-> NaN, yhat |-> NaN, p |-> NaN, q |-> NaN,
              grad |-> NaN, gradhat |-> NaN, psi |-> NaN, psixhat |-> NaN,
              phi |-> NaN, L |-> NaN, sigma |-> NaN, gamma |-> NaN,
              gTp |-> NaN, nsq |-> NaN]
    /\ nxt = [x |-> NaN, xhat |-> NaN, yhat |-> NaN, p |-> NaN,
              grad |-> NaN, psi |-> NaN, psixhat |-> NaN, phi |-> NaN,
              L |-> NaN, sigma |-> NaN, gamma |-> NaN, gTp |-> NaN,
              nsq |-> NaN]
    /\ aa = [raa_prev |-> NaN, raa |-> NaN, yaa |-> NaN, xaa |-> NaN,
             gaa |-> NaN, yhat_aa |-> NaN, accepted |-> FALSE]
    /\ tau = NaN /\ sigma_norm = NaN /\ eps_k = NaN
    /\ no_progress = 0
    /\ unchanged = 0
    /\ s = [iterations |-> 0, status |-> "Unknown", eps |-> NaN,
            linesearch_failures |-> 0, lbfgs_failures |-> 0,
            lbfgs_rejected |-> 0]
    /\ stop_signal = FALSE
    /\ timed_out = FALSE
    /\ dir = [initialized |-> FALSE, gamma |-> NaN, call |-> "none",
              g_new |-> NaN, g_old |-> NaN, known |-> NaN,
              applies |-> 0, updates |-> 0, resets |-> 0]
    /\ ls = [passes |-> 0, prox |-> 0, last_prox |-> FALSE, tau0 |-> NaN]
    /\ flags = [conv |-> FALSE, out_of_iter |-> FALSE, out_of_time |-> FALSE,
                not_finite |-> FALSE, interrupted |-> FALSE,
                max_no_progress |-> FALSE, tested |-> FALSE]

\* x += h
PGAPerturb(xx, h) == Add(xx, h)

\* L = || grad psi(x) - grad psi(x_k) || / || h ||, x the perturbed point
PGAEstimateL(pr, xp, xk, h) ==
    Div(Abs(Sub(GradPsi(pr, xp), GradPsi(pr, xk))), Abs(h))

PGAEstimate ==
    /\ pc = "pga_estimate"
    /\ \E h \in {LipschitzStep(x)} :
       \E xp \in {PGAPerturb(x, h)} :
       \E Lfd \in {PGAEstimateL(cfg.prob, xp, cur.x, h)} :
         /\ x' = xp
         /\ IF ~Lt(Lfd, EpsM) /\ ~IsFinite(Lfd)
            THEN /\ s' = [s EXCEPT !.status = "NotFinite"]
                 /\ pc' = "done"
                 /\ cur' = [cur EXCEPT !.psi = Psi(cfg.prob, cur.x),
                                       !.grad = GradPsi(cfg.prob, cur.x),
                                       !.gradhat = GradPsi(cfg.prob, xp),
                                       !.L = Lfd]
            ELSE /\ s' = s
                 /\ pc' = "pga_qub"
                 /\ cur' = [cur EXCEPT !.psi = Psi(cfg.prob, cur.x),
                                       !.grad = GradPsi(cfg.prob, cur.x),
                                       !.gradhat = GradPsi(cfg.prob, xp),
                                       !.L = ClampL(Lfd),
                                       !.gamma = InitialGamma(ClampL(Lfd))]
    /\ UNCHANGED <<cfg, y, err_z, k, nxt, aa, tau, sigma_norm, eps_k,
                   no_progress, env, dir, ls, flags, unchanged>>

\* psi(x-hat) > psi + margin + grad_psi' p + 0.5 L ||p||^2, margin = 0
PGAQubCond(r, psi) ==
    Gt(r.psixhat, Add(Add(psi, r.gTp), Mul(Mul(Half, r.L), r.nsq)))

\* one turn of the loop: L *= 2, gamma /= 2, and the step again
PGAQubStep(pr, yy, r, xx, grad) ==
    ProxStep(pr, yy,
             [r EXCEPT !.L = Mul(r.L, Two), !.gamma = Div(r.gamma, Two)],
             xx, grad, CalcXhat(pr, Div(r.gamma, Two), xx, grad))

RECURSIVE PGAQubLoop(_, _, _, _, _, _, _)
PGAQubLoop(pr, yy, r, xx, grad, psi, n) ==
    IF n = 0 \/ ~PGAQubCond(r, psi) THEN r
    ELSE PGAQubLoop(pr, yy, PGAQubStep(pr, yy, r, xx, grad), xx, grad, psi,
                    n - 1)

PGAQuadraticUpperBound ==
    /\ pc = "pga_qub"
    /\ \E r0 \in {ProxStep(cfg.prob, y, cur, cur.x, cur.grad,
                            CalcXhat(cfg.prob, cur.gamma, cur.x, cur.grad))} :
       \E r \in {PGAQubLoop(cfg.prob, y, r0, cur.x, cur.grad, cur.psi,
                            MaxQub)} :
       \E gh \in {GradPsiFromYhat(cfg.prob, y, r.xhat, r.yhat)} :
         /\ ~PGAQubCond(r, cur.psi)
         /\ cur' = [r EXCEPT !.gradhat = gh]
         /\ eps_k' = CalcErrorStopCrit(r.p, r.gamma, gh, r.grad)
    /\ pc' = "pga_stop"
    /\ UNCHANGED <<cfg, x, y, err_z, k, nxt, aa, tau, sigma_norm, no_progress,
                   s, env, dir, ls, flags, unchanged>>

\* no_progress > 1
PGAMaxNoProgress(np) == np > 1

PGAStopTest ==
    /\ pc = "pga_stop"
    /\ LET out_of_time     == timed_out
           out_of_iter     == OutOfIter(k, cfg.max_iter)
           interrupted     == stop_signal
           not_finite      == ~IsFinite(eps_k)
           conv            == Le(eps_k, cfg.tol)
           max_no_progress == PGAMaxNoProgress(no_progress)
           exit == conv \/ out_of_iter \/ out_of_time \/ not_finite
                     \/ interrupted \/ max_no_progress
       IN  /\ flags' = [conv |-> conv, out_of_iter |-> out_of_iter,
                        out_of_time |-> out_of_time,
                        not_finite |-> not_finite,
                        interrupted |-> interrupted,
                        max_no_progress |-> max_no_progress,
                        tested |-> TRUE]
           /\ IF exit
              THEN /\ err_z' = CalcErrZ(cfg.prob, cur.xhat)
                   /\ x' = cur.xhat
                   /\ y' = cur.yhat
                   /\ s' = [s EXCEPT !.iterations = k, !.eps = eps_k,
                               !.status = ExitStatus(conv, out_of_time,
                                   out_of_iter, not_finite, max_no_progress)]
                   /\ pc' = "done"
              ELSE /\ UNCHANGED <<x, y, err_z, s>>
                   /\ pc' = "pga_post"
    /\ UNCHANGED <<cfg, k, cur, nxt, aa, tau, sigma_norm, eps_k, no_progress,
                   env, dir, ls, unchanged>>

\* if (x_k == x-hat_k) ++no_progress; else no_progress = 0;
PGANoProgress(np, xk, xh) == IF VecEq(xk, xh) THEN np + 1 ELSE 0

\* x_k.swap(x-hat_k); grad_psi_k.swap(grad_psi(x-hat_k)); psi_k = psi(x-hat_k)
PGAAdvanceCur(c) ==
    [c EXCEPT !.x = c.xhat, !.xhat = c.x, !.grad = c.gradhat,
              !.gradhat = c.grad, !.psi = c.psixhat]

PGAAdvance ==
    /\ pc = "pga_post"
    /\ no_progress' = PGANoProgress(no_progress, cur.x, cur.xhat)
    /\ unchanged' = IF VecEq(cur.x, cur.xhat) THEN unchanged + 1 ELSE 0
    /\ cur' = PGAAdvanceCur(cur)
    /\ k' = k + 1
    /\ pc' = IF k + 1 <= cfg.max_iter THEN "pga_qub" ELSE "error"
    /\ UNCHANGED <<cfg, x, y, err_z, nxt, aa, tau, sigma_norm, eps_k, s, env,
                   dir, ls, flags>>

NextPGA ==
    \/ PGAEstimate
    \/ PGAQuadraticUpperBound
    \/ PGAStopTest
    \/ PGAAdvance
    \/ Stop
    \/ TimePasses

SpecPGA == InitPGA /\ [][NextPGA]_vars

\* either solver
SpecAll == (Init \/ InitPGA) /\ [][Next \/ NextPGA]_vars

----------------------------------------------------------------------------
(* Properties                                                               *)

Unmodified == x = cfg.x0 /\ y = Y0 /\ err_z = ErrZ0

Returned == pc = "done"
ReturnedFromLoop == pc = "done" /\ flags.tested

FlagOf(f, st) ==
    CASE st = "Converged"   -> f.conv
      [] st = "MaxTime"     -> f.out_of_time
      [] st = "MaxIter"     -> f.out_of_iter
      [] st = "NotFinite"   -> f.not_finite
      [] st = "NoProgress"  -> f.max_no_progress
      [] st = "Interrupted" -> f.interrupted

\* the status of the first flag of the order that is true
HighestPriority(f, order) ==
    order[CHOOSE i \in 1..Len(order) :
            /\ FlagOf(f, order[i])
            /\ \A j \in 1..(i - 1) : ~FlagOf(f, order[j])]

SpecOrder == <<"Converged", "MaxIter", "MaxTime", "NotFinite",
               "Interrupted", "NoProgress">>
CodeOrder == <<"Converged", "MaxTime", "MaxIter", "NotFinite",
               "NoProgress", "Interrupted">>

\* C1 (as stated): the status reported at an exit is that of the first true
\* flag in the order converged > out-of-iter > out-of-time > not-finite >
\* interrupted > no-progress.
C1_StatusSpecOrder ==
    ReturnedFromLoop => s.status = HighestPriority(flags, SpecOrder)

\* C1 (amended): the status reported at an exit is that of the first true
\* flag in the order converged > out-of-time > out-of-iter > not-finite >
\* no-progress > interrupted.
C1_StatusCodeOrder ==
    ReturnedFromLoop => s.status = HighestPriority(flags, CodeOrder)

C1_Witness ==
    /\ ReturnedFromLoop
    /\ flags.interrupted /\ flags.max_no_progress /\ ~flags.out_of_iter
    /\ s.status = "NoProgress"

\* C2 (as stated): a return with status MaxIter, MaxTime, NotFinite or
\* NoProgress and always_overwrite_results = false leaves x, y, err_z as
\* they were at entry.
C2_UnmodifiedByStatus ==
    (/\ Returned
     /\ s.status \in {"MaxIter", "MaxTime", "NotFinite", "NoProgress"}
     /\ ~cfg.always_overwrite_results) => Unmodified

\* C2 (amended): a return that is not Converged leaves x, y, err_z as they
\* were at entry unless always_overwrite_results is set or a stop was
\* requested at the exiting stop test (whatever status is then reported).
C2_UnmodifiedUnlessStopRequested ==
    (/\ Returned
     /\ s.status # "Converged"
     /\ ~cfg.always_overwrite_results
     /\ ~flags.interrupted) => Unmodified

C2_Witness ==
    /\ ReturnedFromLoop
    /\ s.status = "MaxIter" /\ s.iterations > 0
    /\ ~cfg.always_overwrite_results /\ ~flags.interrupted
    /\ Unmodified /\ cur.xhat # cfg.x0

\* the results written by an exit: the values at the proximal image
ResultsWritten ==
    /\ x' = cur.xhat
    /\ y' = cur.yhat
    /\ err_z' = CalcErrZ(cfg.prob, cur.xhat)

FirstStopTestWithStop == pc = "stop" /\ k = 0 /\ stop_signal /\ pc' # pc

\* C3 (as stated): with the stop signal set before the first stop test the
\* solve returns Interrupted with the results written, whatever max_iter,
\* max_time and the starting point.
C3_InterruptedWhatever ==
    [][FirstStopTestWithStop =>
         (pc' = "done" /\ s'.status = "Interrupted" /\ ResultsWritten)]_vars

\* C3 (amended): with the stop signal set before the first stop test, that
\* test returns with iterations = 0 and the results written; the status is
\* Interrupted unless the iterate converged, the time or the iterations ran
\* out or the stop measure is not finite, which take precedence in this
\* order.  Once a solve has returned Converged, a stop request changes none
\* of x, y, err_z and the Stats.
C3_StopBeforeFirstTest ==
    [][/\ FirstStopTestWithStop =>
            /\ pc' = "done" /\ s'.iterations = 0
            /\ ResultsWritten
            /\ s'.status = IF Le(eps_k, cfg.tol) THEN "Converged"
                           ELSE IF timed_out THEN "MaxTime"
                           ELSE IF cfg.max_iter = 0 THEN "MaxIter"
                           ELSE IF ~IsFinite(eps_k) THEN "NotFinite"
                           ELSE "Interrupted"
       /\ (pc = "done" /\ s.status = "Converged") =>
            (pc' = "done" /\ x' = x /\ y' = y /\ err_z' = err_z /\ s' = s)
      ]_vars

C3_Witness ==
    /\ ReturnedFromLoop
    /\ flags.interrupted /\ s.iterations = 0 /\ s.status = "Interrupted"
    /\ x = cur.xhat /\ x # cfg.x0 /\ ~cfg.always_overwrite_results

AtOptimum ==
    LET pr == cfg.prob
        L0 == EstimateL(pr, cfg.x0)
        g  == InitialGamma(ClampL(L0))
        gr == GradPsi(pr, cfg.x0)
        xh == CalcXhat(pr, g, cfg.x0, gr)
        p  == CalcP(xh, cfg.x0)
    IN  /\ IsFinite(L0)
        /\ p = Zero
        /\ Le(CalcErrorStopCrit(p, g, GradPsi(pr, xh), gr), cfg.tol)

\* C5: from a starting point that satisfies the stop criterion the solve
\* returns at its first stop test: Converged, iterations = 0, results
\* written, no apply, no update and no line search pass, whatever max_iter,
\* the stop flag and the clock.
C5_IdempotentAtOptimum ==
    AtOptimum =>
      /\ pc \in {"estimate", "qub", "stop", "done"}
      /\ k = 0 /\ dir.applies = 0 /\ dir.updates = 0 /\ ls.passes = 0
      /\ pc = "done" =>
           /\ s.status = "Converged" /\ s.iterations = 0
           /\ x = cfg.x0
           /\ y = Yhat(cfg.prob, Y0, cfg.x0)
           /\ err_z = CalcErrZ(cfg.prob, cfg.x0)

C5_Witness ==
    /\ AtOptimum /\ pc = "done" /\ s.status = "Converged"
    /\ flags.out_of_iter /\ flags.interrupted /\ flags.out_of_time
    /\ err_z # ErrZ0

\* the step size and the Lipschitz estimate after the first projected
\* gradient step, before any upper-bound loop
Gamma0 == InitialGamma(ClampL(EstimateL(cfg.prob, cfg.x0)))
L0 == ClampL(EstimateL(cfg.prob, cfg.x0))

InLoop == pc \in {"qub", "stop", "dir", "ls", "post"}

\* C6: from the first projected gradient step on, no step of the solve
\* increases gamma_k or decreases L_k, and the trial values gamma_k+1,
\* L_k+1 left by a line search pass are at most gamma_k and at least L_k;
\* hence gamma_k <= ... <= gamma_0 and L_k >= ... >= L_0 at the stop tests.
C6_Monotone ==
    [][InLoop =>
         /\ Le(cur'.gamma, cur.gamma) /\ Ge(cur'.L, cur.L)
         /\ Le(cur'.gamma, Gamma0) /\ Ge(cur'.L, L0)
         /\ ls'.passes > ls.passes =>
              (Le(nxt'.gamma, cur.gamma) /\ Ge(nxt'.L, cur.L))
      ]_vars

C6_Witness ==
    /\ pc = "stop" /\ k = 2 /\ cfg.update_lipschitz_in_linesearch
    /\ ls.passes >= 2
    /\ Lt(cur.gamma, Gamma0) /\ Gt(cur.L, L0)

\* floor(log2(1 / t)), t > 0
FloorLog2Inv(t) ==
    CHOOSE n \in -8..8 :
        Le(Mul(<<1, n>>, t), One) /\ Gt(Mul(<<1, n + 1>>, t), One)

PassesAsStated == IF ls.tau0 = Zero THEN 1 ELSE FloorLog2Inv(cfg.tau_min) + 1
PassesAtMost ==
    IF ls.tau0 = Zero \/ FloorLog2Inv(cfg.tau_min) < 0 THEN 1
    ELSE FloorLog2Inv(cfg.tau_min) + 1

\* C7 (as stated): for every tau_min > 0 a line search makes at most
\* floor(log2(1 / tau_min)) + 1 passes when tau starts at 1 and exactly one
\* pass when tau is forced to 0.
C7_PassesAsStated ==
    /\ pc = "ls" => ls.passes < PassesAsStated
    /\ pc = "post" => (1 <= ls.passes /\ ls.passes <= PassesAsStated)
    /\ (pc = "post" /\ ls.tau0 = Zero) => ls.passes = 1

\* C7 (amended): a line search makes at least one pass and at most
\* max(1, floor(log2(1 / tau_min)) + 1) passes when tau starts at 1, and
\* exactly one pass when tau is forced to 0.
C7_PassesBounded ==
    /\ pc = "ls" => ls.passes < PassesAtMost
    /\ pc = "post" => (1 <= ls.passes /\ ls.passes <= PassesAtMost)
    /\ (pc = "post" /\ ls.tau0 = Zero) => ls.passes = 1

C7_Witness ==
    /\ pc = "post" /\ ls.tau0 = One /\ cfg.tau_min = <<1, -2>>
    /\ ls.passes = 3 /\ ls.passes = PassesAtMost

\* the proximal image x-hat_k of this iteration: the projected gradient
\* step from x_k, or the accepted Anderson point
ProxImage ==
    IF aa.accepted THEN Project(cfg.prob, aa.yaa)
    ELSE CalcXhat(cfg.prob, cur.gamma, cur.x, cur.grad)

\* C8: when a line search is over, its last pass took the safe prox step
\* exactly when tau < tau_min; then x_k+1 = x-hat_k, psi_k+1 = psi(x-hat_k),
\* grad_psi_k+1 = grad psi(x-hat_k), and otherwise x_k+1 is the quasi-Newton
\* candidate of the last tau; the prox branch is taken at most once and
\* only in the last pass; at k = 0 it is taken; linesearch_failures grows
\* by one exactly when tau < tau_min and k > 0, and nowhere else; at k > 0
\* tau starts at 0 exactly when q is not finite, then lbfgs_failures grows
\* by one and the direction provider is reset.
C8_ProxStep ==
    [][/\ pc = "post" =>
            /\ ls.last_prox <=> Lt(tau, cfg.tau_min)
            /\ k = 0 => ls.last_prox
            /\ ls.prox = (IF ls.last_prox THEN 1 ELSE 0)
            /\ ls.last_prox =>
                 /\ nxt.x = ProxImage
                 /\ nxt.psi = Psi(cfg.prob, ProxImage)
                 /\ nxt.grad = GradPsi(cfg.prob, ProxImage)
            /\ ~ls.last_prox =>
                 nxt.x = QuasiNewtonStep(cur, Mul(tau, Two))
            /\ pc' # pc =>
                 s'.linesearch_failures = s.linesearch_failures
                     + (IF ls.last_prox /\ k > 0 THEN 1 ELSE 0)
       /\ pc = "ls" => ls.prox = 0
       /\ pc # "post" => s'.linesearch_failures = s.linesearch_failures
       /\ (pc = "dir" /\ pc' # pc) =>
            /\ tau' = (IF k = 0 \/ ~IsFinite(cur'.q) THEN Zero ELSE One)
            /\ s'.lbfgs_failures = s.lbfgs_failures
                  + (IF k > 0 /\ ~IsFinite(cur'.q) THEN 1 ELSE 0)
            /\ dir'.resets = dir.resets
                  + (IF k > 0 /\ ~IsFinite(cur'.q) THEN 1 ELSE 0)
      ]_vars

C8_Witness ==
    /\ pc = "qub" /\ k = 2
    /\ ls.passes >= 2 /\ ls.last_prox /\ ls.tau0 = One
    /\ s.linesearch_failures = 1 /\ s.lbfgs_failures = 0
    /\ cur.x # cfg.x0

\* C9: at entry to every iteration the buffers with subscript k are those
\* of the point x_k and the step size gamma_k.
C9_IterateConsistent ==
    pc = "qub" =>
      /\ cur.psi = Psi(cfg.prob, cur.x)
      /\ cur.grad = GradPsi(cfg.prob, cur.x)
      /\ cur.xhat = CalcXhat(cfg.prob, cur.gamma, cur.x, cur.grad)
      /\ cur.p = CalcP(cur.xhat, cur.x)
      /\ cur.psixhat = Psi(cfg.prob, cur.xhat)
      /\ cur.yhat = Yhat(cfg.prob, y, cur.xhat)
      /\ cur.gTp = Mul(cur.grad, cur.p)
      /\ cur.nsq = Mul(cur.p, cur.p)

C9_Witness ==
    /\ pc = "qub" /\ k = 2 /\ aa.accepted /\ ls.last_prox
    /\ cur.x = Project(cfg.prob, aa.yaa) /\ cur.x # cfg.x0

\* C10 (as stated): the gamma_old of every changed_gamma call, and the gamma
\* of every update and apply call, is the gamma last communicated to the
\* direction provider.
C10_NotificationChain ==
    /\ dir.call = "changed" => dir.g_old = dir.known
    /\ dir.call \in {"update", "apply"} => dir.g_new = dir.known

IsPGA == "solver" \in DOMAIN cfg

\* C11: the loop of either solver is never left normally: the position after
\* the loop (the logic_error) is never reached, k never exceeds max_iter,
\* the stop test at k = max_iter returns, and every return carries
\* iterations <= max_iter and a status other than Unknown.
C11_NoNormalExit ==
    /\ pc # "error"
    /\ k <= cfg.max_iter
    /\ pc \in {"dir", "ls", "post", "pga_post"} => k < cfg.max_iter
    /\ Returned =>
         /\ s.status \in Statuses \ {"Unknown"}
         /\ s.iterations <= cfg.max_iter

C11_Witness ==
    /\ IsPGA /\ Returned /\ cfg.max_iter = MaxIterBound
    /\ s.status = "MaxIter" /\ s.iterations = cfg.max_iter
    /\ ~flags.conv /\ ~flags.out_of_time /\ ~flags.not_finite
    /\ ~flags.interrupted /\ ~flags.max_no_progress

\* the number of unchanged iterations NoProgress takes more than
Threshold == IF IsPGA THEN 1 ELSE cfg.lbfgs_mem

\* C12: in PANOC the counter is touched in iteration k only if it is
\* positive or k is a multiple of lbfgs_mem, and then becomes no_progress + 1
\* if x_k+1 = x_k and 0 otherwise; in PGA it is touched in every iteration;
\* nothing else changes it.  At every stop test the counter is at most the
\* number of latest iterations that all left x unchanged, the no-progress
\* flag is no_progress > lbfgs_mem (PGA: > 1), and a return with status
\* NoProgress comes after more than that many unchanged iterations in a row.
C12_NoProgressTracking ==
    [][/\ (pc = "post" /\ pc' # pc) =>
            no_progress' =
              IF no_progress > 0 \/ k % cfg.lbfgs_mem = 0
              THEN (IF cur.x = nxt.x /\ IsFinite(cur.x)
                    THEN no_progress + 1 ELSE 0)
              ELSE no_progress
       /\ (pc = "pga_post" /\ pc' # pc) =>
            no_progress' = (IF cur.x = cur.xhat /\ IsFinite(cur.x)
                            THEN no_progress + 1 ELSE 0)
       /\ pc \notin {"post", "pga_post"} => no_progress' = no_progress
       /\ pc \in {"stop", "pga_stop"} => no_progress <= unchanged
       /\ (pc \in {"stop", "pga_stop"} /\ pc' # pc) =>
            (flags'.max_no_progress <=> no_progress > Threshold)
       /\ (Returned /\ s.status = "NoProgress") => unchanged > Threshold
      ]_vars

C12_Witness ==
    /\ ~IsPGA /\ pc = "stop" /\ cfg.lbfgs_mem = 2
    /\ no_progress = 1 /\ unchanged = 2

\* C13 (as stated): on every return of PGA the caller's x holds its value at
\* entry or the final proximal image, never the perturbed point.
C13_CallerXRestored ==
    (IsPGA /\ Returned) => (x = cfg.x0 \/ x = cur.xhat)

\* gamma L = Lgamma_factor, sigma = gamma (1 - gamma L) / 2 and sigma > 0
Tied(r) ==
    /\ Mul(r.gamma, r.L) = LGammaFactor
    /\ r.sigma = InitialSigma(r.gamma, r.L)
    /\ Gt(r.sigma, Zero)

\* C14: from the first projected gradient step on, (L_k, gamma_k, sigma_k)
\* is tied, and so are the trial values (L_k+1, gamma_k+1, sigma_k+1) at the
\* end of every line search pass, whatever the number of doublings.
C14_StepSizeTied ==
    /\ InLoop => Tied(cur)
    /\ (pc \in {"ls", "post"} /\ ls.passes > 0) => Tied(nxt)

C14_Witness ==
    /\ pc = "post"
    /\ Lt(cur.gamma, Gamma0) /\ Lt(nxt.gamma, cur.gamma)
    /\ Tied(cur) /\ Tied(nxt)

\* C15 (as stated): when the line search condition of iteration k is
\* evaluated, phi_k is the forward-backward envelope of the current gamma_k
\* and p_k, and sigma_k ||p_k||^2 / gamma_k^2 is taken with the squared norm
\* of the current p_k.
C15_ReferenceCurrent ==
    pc = "ls" =>
      /\ cur.phi = FBE(cur.psi, cur.gamma, Mul(cur.p, cur.p),
                       Mul(cur.grad, cur.p))
      /\ sigma_norm = Div(Mul(cur.sigma, Mul(cur.p, cur.p)),
                          Mul(cur.gamma, cur.gamma))

============================================================================
